---- MODULE Spec2Model ----
(***************************************************************************)
(* A model of the sync package: the Thread lifecycle (threads.py), the     *)
(* liveness-aware Queue (queues.py), the stage contracts Producer,         *)
(* Consumer and Pipeline (operations.py) and the Cache variant of the      *)
(* Producer and Consumer (pipeline.py).                                    *)
(*                                                                         *)
(* Every method is modelled by what the Python code does when it is run,   *)
(* exceptions included: a method that raises is an outcome record whose    *)
(* exc field names the exception, and the caller's except clauses decide   *)
(* where it goes.  "None" is Python's None.                                *)
(***************************************************************************)
EXTENDS Naturals, Sequences, FiniteSets

\* ------------------------------------------------------------------ bounds
MaxItems == 2
MaxPut == 1
MaxSources == 1
MaxPublish == 3
MaxSize == 2

\* --------------------------------------------------------- the object graph
\* One instance of every stage kind, wired as the chain P -> q1 -> T -> q2 -> C
\* (operations.py) and as L -> c1 -> K (pipeline.py, on a Cache); R is a
\* Process (operations.py) from q1 to q2.
Stages == {"P", "T", "R", "C", "L", "K"}
Queues == {"q1", "q2", "c1"}
Caches == {"c1"}
Chain == {"P", "T", "C"}

kind == [s \in Stages |->
           CASE s = "P" -> "operations.Producer"
             [] s = "T" -> "operations.Pipeline"
             [] s = "R" -> "operations.Process"
             [] s = "C" -> "operations.Consumer"
             [] s = "L" -> "pipeline.Producer"
             [] s = "K" -> "pipeline.Consumer"]

\* The source=... and destination=... arguments of the constructors.
source == [s \in Stages |->
             CASE s = "T" -> "q1"
               [] s = "R" -> "q1"
               [] s = "C" -> "q2"
               [] s = "K" -> "c1"
               [] OTHER -> "None"]

destination == [s \in Stages |->
                  CASE s = "P" -> "q1"
                    [] s = "T" -> "q2"
                    [] s = "R" -> "q2"
                    [] s = "L" -> "c1"
                    [] OTHER -> "None"]

\* The exception kinds a stage kind declares as recognized (__failures__).
failures == [s \in Stages |-> {"Recognized"}]

\* What the externally supplied execute of a producer does: it yields the
\* items 1..len and then stops, or raises a recognized or another exception.
Plans == [len : 0..MaxItems, ends : {"stop", "Recognized", "Unrecognized"}]

\* An execute that ends by raising the signal by which a stage asks for its
\* own stop, an exception of a kind that no stage declares as recognized.
TerminatePlans == [len : 0..MaxItems, ends : {"Terminate"}]

\* The names of the Status views that can exist on the one Switch, and the
\* threads that call them.
Views == {"A", "B", "C"}
Workers == {"w1", "w2"}

\* The tasks handed to the first Stack, the Stack instances (S is the one
\* built from the tasks, X is the one an export makes) and the threads that
\* call checkout and export.
Tasks == {"T1", "T2", "T3"}
Stacks == {"S", "X"}
Callers == {"u1", "u2"}

\* The thread of the runs with one caller, and the task of the runs with one
\* with block.
Worker == "u1"
Scoped == "T1"

VARIABLES
  feed,        \* the behaviour of the producers' execute, an input
  st,          \* per stage: "absent", "raised" (no instance), "made"
  pc,          \* per stage: where its thread is
  exc,         \* per stage: the exception leaving process, or "None"
  failure,     \* Thread.__failure
  error,       \* Thread.__error
  alive,       \* the switch of the Alive/Dead status pair
  running,     \* the switch of the Running/Idle status pair
  cur,         \* per stage: the content in hand
  yielded,     \* per stage: how many items its generator has yielded
  sent,        \* per stage: the contents it has put on its destination
  executed,    \* per stage: the contents passed to a consumer's execute
  fifo,        \* per queue: queue.Queue's deque
  unfinished,  \* per queue: queue.Queue.unfinished_tasks
  sources,     \* per queue: Queue.__sources, a list
  open,        \* per Cache: the switch of its Open status
  nput,        \* contents put by the assembler so far
  \* one Switch, the Status views on it and the threads that use them
  sw_state,    \* Switch.__state
  sw_on,       \* the flag of the Event Switch.__on
  sw_off,      \* the flag of the Event Switch.__off
  sw_lock,     \* the holder of Switch.__lock, or "None"
  views,       \* the Status views that exist
  position,    \* per view: Status.__position
  origin,      \* per view: the view it was derived from and how
  tpc,         \* per worker: where it is in set or wait
  tview,       \* per worker: the view it called
  treq,        \* per worker: the state it passed to the view
  targ,        \* per worker: the state handed to Switch.set
  tres,        \* per worker: what wait returned, or "None"
  seen,        \* per worker: its view was true at some moment of its wait
  \* the Stacks, the Tasks and the threads that call checkout and export
  stack_agenda,   \* per stack: Stack.__agenda
  stack_success,  \* per stack: Stack.__success
  stack_failure,  \* per stack: Stack.__failure
  stack_mutex,    \* per stack: the holder of Stack.__mutex, or "None"
  stacks,         \* the Stack instances that exist
  subscribers,    \* per task: the stacks registered with the Publisher
  task_default,   \* Task.__default
  task_result,    \* Task.__result
  task_scope,     \* per task: its with block, "out", "in" or how it ended
  published,      \* per task: the events handed to publish, in order
  checkedout,     \* per task: how often checkout has returned it
  upc,            \* per caller: where it is in checkout or export
  ustack,         \* per caller: the stack it called
  usize,          \* per caller: the size handed to export
  ures,           \* per caller: the kind of what its last call returned or raised
  \* one task Queue (queue.py) and the threads that call it
  queue_items,    \* the contents of the Queue, oldest first
  queue_mutex,    \* the holder of queue.Queue.mutex, or "None"
  gpc,            \* per caller: where it is in a call on the Queue
  gsize,          \* per caller: the size handed to __getitem__
  gleft,          \* per caller: the passes of __getitem__'s loop still to make
  instance,       \* per caller: the contents of the Queue __getitem__ builds
  gres            \* per caller: what its last call returned, or "None"

pipelineVars == <<feed, st, pc, exc, failure, error, alive, running, cur,
                  yielded, sent, executed, fifo, unfinished, sources, open,
                  nput>>
statusVars == <<sw_state, sw_on, sw_off, sw_lock, views, position, origin,
                tpc, tview, treq, targ, tres, seen>>

stackVars == <<stack_agenda, stack_success, stack_failure, stack_mutex,
               stacks, subscribers, task_default, task_result, task_scope,
               published, checkedout, upc, ustack, usize, ures>>

sliceVars == <<queue_items, queue_mutex, gpc, gsize, gleft, instance, gres>>

vars == <<pipelineVars, statusVars, stackVars, sliceVars>>

stageVars == <<st, pc, exc, failure, error, alive, running, cur, yielded,
               sent, executed>>
queueVars == <<fifo, unfinished, sources, open>>

\* ---------------------------------------------------------------- status.py
\* Status.__bool__: bool(position) is bool(switch).
Status_bool(pos, switch) == pos = switch

\* Status.__call__ with the polarity of the view left out.
Status_call_plain(pos, state) == state

\* Status.__call__: the value handed to the switch, bool(position) is
\* bool(state).
Status_call(pos, state) == pos = state

\* Status.divergent with the position of the new view left as it was.
Status_divergent_same(pos) == pos

\* Status.divergent: the new view has position not bool(position), on the
\* same switch.
Status_divergent(pos) == ~pos

\* Status.convergent: the new view has position bool(position), on the same
\* switch.
Status_convergent(pos) == pos

\* Switch.wait: the event a view of this position waits on, on for position
\* True and off for position False.
Switch_event(pos) == IF pos THEN sw_on ELSE sw_off

\* bool(view) for a view that exists on the switch.
View_bool(v) == Status_bool(position[v], sw_state)

\* --------------------------------------------------------------- threads.py
\* The views of a Thread: Alive and Running have position True, Dead and Idle
\* are their divergent views.
Alive(s) == Status_bool(TRUE, alive[s])
Dead(s) == Status_bool(FALSE, alive[s])
Running(s) == Status_bool(TRUE, running[s])
Idle(s) == Status_bool(FALSE, running[s])

\* threading.Thread.is_alive: true from start() until run() has returned.
is_alive(s) == pc[s] \notin {"new", "terminated"}

\* Thread.__bool__
Thread_bool(s) == is_alive(s)

\* ---------------------------------------------------------------- queues.py
\* queue.Queue.empty
Queue_empty(q) == Len(fifo[q]) = 0

\* Python's any() of a list of booleans
any(flags) == \E i \in DOMAIN flags : flags[i]

\* Queue.__bool__ with the sources left out: the queue's own FIFO alone.
Queue_bool_own(q) == ~Queue_empty(q)

\* Queue.__bool__: any source alive, or the FIFO not empty.
Queue_bool(q) ==
  LET srcs == any([i \in DOMAIN sources[q] |-> Thread_bool(sources[q][i])])
  IN  (~Queue_empty(q)) \/ srcs

\* Queue.register: __sources is a list, and a list has no method add.
Queue_register(q, s) == [exc |-> "AttributeError", sources |-> sources[q]]

\* Queue.get: self.timeout is no attribute of a Queue (the constructor stores
\* __timeout and no property reads it), so the argument of super().get raises
\* before the FIFO is touched; and get has no return statement.
Queue_get(q) == [exc |-> "AttributeError", content |-> 0, fifo |-> fifo[q]]

\* Queue.put: queue.Queue.put on an unbounded queue.
Queue_put(q, content) ==
  [exc |-> "None", fifo |-> Append(fifo[q], content),
   unfinished |-> unfinished[q] + 1]

\* Queue.done: queue.Queue.task_done.
Queue_done(q, n) ==
  IF n = 0 THEN [exc |-> "ValueError", unfinished |-> n]
           ELSE [exc |-> "None", unfinished |-> n - 1]

\* -------------------------------------------------------------- pipeline.py
\* Cache.put: passes timeout= to Queue.put, which takes no such argument.
Cache_put(q, content) ==
  [exc |-> "TypeError", fifo |-> fifo[q], unfinished |-> unfinished[q]]

\* Cache.get: passes timeout= to Queue.get, which takes no such argument.
Cache_get(q) == [exc |-> "TypeError", content |-> 0, fifo |-> fifo[q]]

\* Status.__bool__ of Cache.open: position True, so the switch itself.
Cache_open(q) == open[q]

\* self.source.get() and self.destination.put(...) as the queue's class binds
\* them.
get(q) == IF q \in Caches THEN Cache_get(q) ELSE Queue_get(q)
put(q, content) == IF q \in Caches THEN Cache_put(q, content)
                                   ELSE Queue_put(q, content)

\* ------------------------------------------------------------------ Init
\* The pipeline before any constructor has been called.
PipelineStart(plans) ==
  /\ feed \in plans
  /\ st = [s \in Stages |-> "absent"]
  /\ pc = [s \in Stages |-> "new"]
  /\ exc = [s \in Stages |-> "None"]
  /\ failure = [s \in Stages |-> "None"]
  /\ error = [s \in Stages |-> "None"]
  /\ alive = [s \in Stages |-> FALSE]
  /\ running = [s \in Stages |-> FALSE]
  /\ cur = [s \in Stages |-> 0]
  /\ yielded = [s \in Stages |-> 0]
  /\ sent = [s \in Stages |-> <<>>]
  /\ executed = [s \in Stages |-> <<>>]
  /\ fifo = [q \in Queues |-> <<>>]
  /\ unfinished = [q \in Queues |-> 0]
  /\ sources = [q \in Queues |-> <<>>]
  /\ open = [q \in Caches |-> TRUE]
  /\ nput = 0

\* Status(name, state), the indirect form: a fresh Switch(state), whose
\* constructor ends with set(state), and one view of position True on it.
StatusStart(states) ==
  /\ sw_state \in states
  /\ sw_on = sw_state
  /\ sw_off = ~sw_state
  /\ sw_lock = "None"
  /\ views = {"A"}
  /\ position = [v \in Views |-> TRUE]
  /\ origin = [v \in Views |-> [of |-> "None", how |-> "direct"]]
  /\ tpc = [t \in Workers |-> "idle"]
  /\ tview = [t \in Workers |-> "A"]
  /\ treq = [t \in Workers |-> FALSE]
  /\ targ = [t \in Workers |-> FALSE]
  /\ tres = [t \in Workers |-> "None"]
  /\ seen = [t \in Workers |-> FALSE]

\* Stack([T1, T2, T3], file=...): the constructor ends with scheduler, which
\* registers the stack with each task and puts the task on the agenda.  No
\* task has a default or a result yet, no thread is inside a call.
StackStart ==
  /\ stack_agenda = [s \in Stacks |-> IF s = "S" THEN <<"T1", "T2", "T3">>
                                               ELSE <<>>]
  /\ stack_success = [s \in Stacks |-> <<>>]
  /\ stack_failure = [s \in Stacks |-> <<>>]
  /\ stack_mutex = [s \in Stacks |-> "None"]
  /\ stacks = {"S"}
  /\ subscribers = [t \in Tasks |-> {"S"}]
  /\ task_default = [t \in Tasks |-> "None"]
  /\ task_result = [t \in Tasks |-> "None"]
  /\ task_scope = [t \in Tasks |-> "out"]
  /\ published = [t \in Tasks |-> <<>>]
  /\ checkedout = [t \in Tasks |-> 0]
  /\ upc = [u \in Callers |-> "idle"]
  /\ ustack = [u \in Callers |-> "None"]
  /\ usize = [u \in Callers |-> 0]
  /\ ures = [u \in Callers |-> "None"]

\* Queue(items=[1, ..., n]) for an n of lens: Queue.__init__ puts the items
\* in order; no thread is inside a call.
SliceStart(lens) ==
  /\ queue_items \in {[i \in 1..n |-> i] : n \in lens}
  /\ queue_mutex = "None"
  /\ gpc = [u \in Callers |-> "idle"]
  /\ gsize = [u \in Callers |-> 0]
  /\ gleft = [u \in Callers |-> 0]
  /\ instance = [u \in Callers |-> <<>>]
  /\ gres = [u \in Callers |-> "None"]

Init ==
  PipelineStart(Plans) /\ StatusStart({FALSE}) /\ StackStart /\ SliceStart({0})

\* ------------------------------------------------------------ constructors
\* The assembler is one thread of control: it calls the constructors one after
\* the other, in this order.
Order == <<"P", "T", "R", "C", "L", "K">>

Constructible(s) ==
  /\ st[s] = "absent"
  /\ \A i, j \in DOMAIN Order : (Order[i] = s /\ j < i) => st[Order[j]] # "absent"

\* Producer.__init__ (operations.py): Thread.__init__, then
\* destination.register(self); an exception leaves no instance.
Producer_init(s) ==
  /\ kind[s] = "operations.Producer"
  /\ Constructible(s)
  /\ LET r == Queue_register(destination[s], s)
     IN  /\ st' = [st EXCEPT ![s] = IF r.exc = "None" THEN "made" ELSE "raised"]
         /\ sources' = [sources EXCEPT ![destination[s]] = r.sources]
  /\ UNCHANGED <<feed, pc, exc, failure, error, alive, running, cur, yielded,
                 sent, executed, fifo, unfinished, open, nput>>

\* Operation.__init__ (operations.py), the constructor of a Pipeline and of a
\* Process.
Operation_init(s) ==
  /\ kind[s] \in {"operations.Pipeline", "operations.Process"}
  /\ Constructible(s)
  /\ LET r == Queue_register(destination[s], s)
     IN  /\ st' = [st EXCEPT ![s] = IF r.exc = "None" THEN "made" ELSE "raised"]
         /\ sources' = [sources EXCEPT ![destination[s]] = r.sources]
  /\ UNCHANGED <<feed, pc, exc, failure, error, alive, running, cur, yielded,
                 sent, executed, fifo, unfinished, open, nput>>

\* Consumer.__init__ (operations.py)
Consumer_init(s) ==
  /\ kind[s] = "operations.Consumer"
  /\ Constructible(s)
  /\ st' = [st EXCEPT ![s] = "made"]
  /\ UNCHANGED <<feed, pc, exc, failure, error, alive, running, cur, yielded,
                 sent, executed, queueVars, nput>>

\* Producer.__init__ (pipeline.py): it registers nowhere.
CacheProducer_init(s) ==
  /\ kind[s] = "pipeline.Producer"
  /\ Constructible(s)
  /\ st' = [st EXCEPT ![s] = "made"]
  /\ UNCHANGED <<feed, pc, exc, failure, error, alive, running, cur, yielded,
                 sent, executed, queueVars, nput>>

\* Consumer.__new__ (pipeline.py) returns nothing: the constructor call yields
\* None and __init__ is never run.
CacheConsumer_new(s) ==
  /\ kind[s] = "pipeline.Consumer"
  /\ Constructible(s)
  /\ st' = [st EXCEPT ![s] = "None"]
  /\ UNCHANGED <<feed, pc, exc, failure, error, alive, running, cur, yielded,
                 sent, executed, queueVars, nput>>

\* ---------------------------------------------------------- Thread lifecycle
\* Thread.start: alive(True), then threading.Thread.start.
Thread_start(s) ==
  /\ st[s] = "made"
  /\ pc[s] = "new"
  /\ alive' = [alive EXCEPT ![s] = Status_call(TRUE, TRUE)]
  /\ pc' = [pc EXCEPT ![s] = "run"]
  /\ UNCHANGED <<feed, st, exc, failure, error, running, cur, yielded, sent,
                 executed, queueVars, nput>>

\* Thread.run, the try clause up to the call of process: running(True).  A
\* producer's process starts by iterating its generator, a consumer's by
\* testing its loop condition.
Thread_run(s) ==
  /\ pc[s] = "run"
  /\ running' = [running EXCEPT ![s] = Status_call(TRUE, TRUE)]
  /\ pc' = [pc EXCEPT ![s] =
              IF kind[s] \in {"operations.Producer", "pipeline.Producer"}
              THEN "iterate" ELSE "loop"]
  /\ UNCHANGED <<feed, st, exc, failure, error, alive, cur, yielded, sent,
                 executed, queueVars, nput>>

\* Thread.run with the second except clause taken as well as the first.
Thread_except_both(s) ==
  /\ pc[s] = "raise"
  /\ error' = [error EXCEPT ![s] = exc[s]]
  /\ IF exc[s] \in failures[s]
     THEN failure' = [failure EXCEPT ![s] = exc[s]]
     ELSE UNCHANGED failure
  /\ pc' = [pc EXCEPT ![s] = "finally"]
  /\ UNCHANGED <<feed, st, exc, alive, running, cur, yielded, sent, executed,
                 queueVars, nput>>

\* Thread.run, the except clauses: an instance of a recognized kind is kept in
\* __failure, anything else in __error.
Thread_except(s) ==
  /\ pc[s] = "raise"
  /\ IF exc[s] \in failures[s]
     THEN /\ failure' = [failure EXCEPT ![s] = exc[s]]
          /\ UNCHANGED error
     ELSE /\ error' = [error EXCEPT ![s] = exc[s]]
          /\ UNCHANGED failure
  /\ pc' = [pc EXCEPT ![s] = "finally"]
  /\ UNCHANGED <<feed, st, exc, alive, running, cur, yielded, sent, executed,
                 queueVars, nput>>

\* Thread.run, the finally clause: idle(True).
Thread_finally(s) ==
  /\ pc[s] = "finally"
  /\ running' = [running EXCEPT ![s] = Status_call(FALSE, TRUE)]
  /\ pc' = [pc EXCEPT ![s] = "return"]
  /\ UNCHANGED <<feed, st, exc, failure, error, alive, cur, yielded, sent,
                 executed, queueVars, nput>>

\* run has returned: the thread is no longer alive.
Thread_exit(s) ==
  /\ pc[s] = "return"
  /\ pc' = [pc EXCEPT ![s] = "terminated"]
  /\ UNCHANGED <<feed, st, exc, failure, error, alive, running, cur, yielded,
                 sent, executed, queueVars, nput>>

\* join returns: Thread.join waits for the thread and sets dead(True);
\* Producer.join and Operation.join (operations.py) then wait in
\* queue.Queue.join of the destination, that is for unfinished_tasks = 0.
\* pipeline.py's Producer inherits Thread.join as it is.
Thread_join(s) ==
  /\ st[s] = "made"
  /\ Alive(s)
  /\ pc[s] = "terminated"
  /\ kind[s] \in {"operations.Producer", "operations.Pipeline",
                "operations.Process"}
       => unfinished[destination[s]] = 0
  /\ alive' = [alive EXCEPT ![s] = Status_call(FALSE, TRUE)]
  /\ UNCHANGED <<feed, st, pc, exc, failure, error, running, cur, yielded,
                 sent, executed, queueVars, nput>>

\* ------------------------------------------------------------------ process
\* An exception leaves process for Thread.run's except clauses.
Raise(s, e) ==
  /\ exc' = [exc EXCEPT ![s] = e]
  /\ pc' = [pc EXCEPT ![s] = "raise"]

Goto(s, label) ==
  /\ pc' = [pc EXCEPT ![s] = label]
  /\ UNCHANGED exc

\* What a consumer's externally supplied execute does with one content.
ExecuteOutcomes == {"None", "Recognized", "Unrecognized"}

\* The loop condition: `while bool(self.source)` in Consumer.process and
\* Pipeline.process (operations.py), `while bool(self.source.open)` in
\* Consumer.generator (pipeline.py).  A false condition ends process.
process_while(s) ==
  /\ pc[s] = "loop"
  /\ LET cond == IF kind[s] = "pipeline.Consumer"
                 THEN Cache_open(source[s])
                 ELSE Queue_bool(source[s])
     IN  Goto(s, IF cond THEN "body" ELSE "finally")
  /\ UNCHANGED <<feed, st, failure, error, alive, running, cur, yielded,
                 sent, executed, queueVars, nput>>

\* Consumer.process (operations.py), one pass of the try clause:
\* get, execute, task_done; queue.Empty continues the loop.
Consumer_body(s) ==
  LET q == source[s]
      g == get(q)
  IN  IF g.exc = "Empty"
      THEN /\ Goto(s, "loop")
           /\ UNCHANGED <<executed, fifo, unfinished>>
      ELSE IF g.exc # "None"
      THEN /\ Raise(s, g.exc)
           /\ UNCHANGED <<executed, fifo, unfinished>>
      ELSE \E r \in ExecuteOutcomes :
             LET d == Queue_done(q, unfinished[q])
             IN  /\ fifo' = [fifo EXCEPT ![q] = g.fifo]
                 /\ executed' = [executed EXCEPT ![s] = Append(@, g.content)]
                 /\ IF r # "None"
                    THEN Raise(s, r) /\ UNCHANGED unfinished
                    ELSE IF d.exc # "None"
                    THEN Raise(s, d.exc) /\ UNCHANGED unfinished
                    ELSE /\ Goto(s, "loop")
                         /\ unfinished' = [unfinished EXCEPT ![q] = d.unfinished]

\* Consumer.generator and Consumer.consumer (pipeline.py): get, yield,
\* execute; there is no task_done.
CacheConsumer_body(s) ==
  LET q == source[s]
      g == get(q)
  IN  IF g.exc = "Empty"
      THEN /\ Goto(s, "loop")
           /\ UNCHANGED <<executed, fifo, unfinished>>
      ELSE IF g.exc # "None"
      THEN /\ Raise(s, g.exc)
           /\ UNCHANGED <<executed, fifo, unfinished>>
      ELSE \E r \in ExecuteOutcomes :
             /\ fifo' = [fifo EXCEPT ![q] = g.fifo]
             /\ executed' = [executed EXCEPT ![s] = Append(@, g.content)]
             /\ IF r # "None" THEN Raise(s, r) ELSE Goto(s, "loop")
             /\ UNCHANGED unfinished

\* Pipeline.process (operations.py): get, then the generator of
\* execute(getContent) is made; nothing of it has run yet.
Pipeline_body(s) ==
  LET q == source[s]
      g == get(q)
  IN  IF g.exc = "Empty"
      THEN /\ Goto(s, "loop")
           /\ UNCHANGED <<cur, yielded, fifo>>
      ELSE IF g.exc # "None"
      THEN /\ Raise(s, g.exc)
           /\ UNCHANGED <<cur, yielded, fifo>>
      ELSE /\ fifo' = [fifo EXCEPT ![q] = g.fifo]
           /\ cur' = [cur EXCEPT ![s] = g.content]
           /\ yielded' = [yielded EXCEPT ![s] = 0]
           /\ Goto(s, "iterate")

\* What reading self.timeout gives in Process.process: Thread and Operation
\* define no such attribute, a concrete subclass may.
TimeoutOutcomes == {"None", "AttributeError"}

\* Process.process (operations.py), one pass of the try clause up to produce:
\* get, consume, sleep(self.timeout), source.done(), produce.  consume and
\* produce are externally supplied; the content produced is the one consumed.
Process_body(s) ==
  LET q == source[s]
      g == get(q)
  IN  IF g.exc = "Empty"
      THEN /\ Goto(s, "loop")
           /\ UNCHANGED <<cur, executed, fifo, unfinished>>
      ELSE IF g.exc # "None"
      THEN /\ Raise(s, g.exc)
           /\ UNCHANGED <<cur, executed, fifo, unfinished>>
      ELSE \E r \in ExecuteOutcomes, t \in TimeoutOutcomes,
              p \in ExecuteOutcomes :
             LET d == Queue_done(q, unfinished[q])
             IN  /\ fifo' = [fifo EXCEPT ![q] = g.fifo]
                 /\ executed' = [executed EXCEPT ![s] = Append(@, g.content)]
                 /\ cur' = [cur EXCEPT ![s] = g.content]
                 /\ IF r # "None"
                    THEN Raise(s, r) /\ UNCHANGED unfinished
                    ELSE IF t # "None"
                    THEN Raise(s, t) /\ UNCHANGED unfinished
                    ELSE IF d.exc # "None"
                    THEN Raise(s, d.exc) /\ UNCHANGED unfinished
                    ELSE /\ unfinished' = [unfinished EXCEPT ![q] = d.unfinished]
                         /\ IF p # "None" THEN Raise(s, p)
                                          ELSE Goto(s, "receive")

process_body(s) ==
  /\ pc[s] = "body"
  /\ CASE kind[s] = "operations.Consumer" ->
            Consumer_body(s) /\ UNCHANGED <<cur, yielded>>
       [] kind[s] = "pipeline.Consumer" ->
            CacheConsumer_body(s) /\ UNCHANGED <<cur, yielded>>
       [] kind[s] = "operations.Pipeline" ->
            Pipeline_body(s) /\ UNCHANGED <<executed, unfinished>>
       [] kind[s] = "operations.Process" ->
            Process_body(s) /\ UNCHANGED yielded
  /\ UNCHANGED <<feed, st, failure, error, alive, running, sent, sources,
                 open, nput>>

\* One step of a producer's generator, `for content in iter(generator)`: the
\* next item of execute, its end, or the exception it raises.
Producer_next(s) ==
  IF yielded[s] < feed.len
  THEN /\ cur' = [cur EXCEPT ![s] = yielded[s] + 1]
       /\ yielded' = [yielded EXCEPT ![s] = @ + 1]
       /\ Goto(s, "receive")
  ELSE /\ IF feed.ends = "stop" THEN Goto(s, "finally")
                                ELSE Raise(s, feed.ends)
       /\ UNCHANGED <<cur, yielded>>

\* One step of the generator of a Pipeline's execute, here the identity
\* transform: it yields its content once; when it ends, source.done() and the
\* loop goes on.
Pipeline_next(s) ==
  LET q == source[s]
      d == Queue_done(q, unfinished[q])
  IN  IF yielded[s] = 0
      THEN /\ yielded' = [yielded EXCEPT ![s] = 1]
           /\ Goto(s, "receive")
           /\ UNCHANGED <<cur, unfinished>>
      ELSE /\ yielded' = [yielded EXCEPT ![s] = 0]
           /\ cur' = [cur EXCEPT ![s] = 0]
           /\ IF d.exc # "None"
              THEN Raise(s, d.exc) /\ UNCHANGED unfinished
              ELSE /\ Goto(s, "loop")
                   /\ unfinished' = [unfinished EXCEPT ![q] = d.unfinished]

process_next(s) ==
  /\ pc[s] = "iterate"
  /\ IF kind[s] = "operations.Pipeline"
     THEN Pipeline_next(s)
     ELSE Producer_next(s) /\ UNCHANGED unfinished
  /\ UNCHANGED <<feed, st, failure, error, alive, running, sent, executed,
                 fifo, sources, open, nput>>

\* self.destination.put(content) in Producer.process and Pipeline.process
\* (operations.py).
Producer_put(s) ==
  LET q == destination[s]
      p == put(q, cur[s])
  IN  IF p.exc # "None"
      THEN /\ Raise(s, p.exc)
           /\ UNCHANGED <<sent, fifo, unfinished>>
      ELSE /\ fifo' = [fifo EXCEPT ![q] = p.fifo]
           /\ unfinished' = [unfinished EXCEPT ![q] = p.unfinished]
           /\ sent' = [sent EXCEPT ![s] = Append(@, cur[s])]
           /\ Goto(s, "iterate")

\* Producer.receiver (pipeline.py): put while bool(self.destination), the
\* liveness of the Cache, and break out of the loop otherwise.
CacheProducer_receiver(s) ==
  IF Queue_bool(destination[s])
  THEN Producer_put(s)
  ELSE /\ Goto(s, "finally")
       /\ UNCHANGED <<sent, fifo, unfinished>>

\* self.destination.put(putContent) in Process.process (operations.py): it
\* ends the pass of the loop.
Process_put(s) ==
  LET q == destination[s]
      p == put(q, cur[s])
  IN  IF p.exc # "None"
      THEN /\ Raise(s, p.exc)
           /\ UNCHANGED <<sent, fifo, unfinished>>
      ELSE /\ fifo' = [fifo EXCEPT ![q] = p.fifo]
           /\ unfinished' = [unfinished EXCEPT ![q] = p.unfinished]
           /\ sent' = [sent EXCEPT ![s] = Append(@, cur[s])]
           /\ Goto(s, "loop")

process_put(s) ==
  /\ pc[s] = "receive"
  /\ CASE kind[s] = "pipeline.Producer" -> CacheProducer_receiver(s)
       [] kind[s] = "operations.Process" -> Process_put(s)
       [] OTHER -> Producer_put(s)
  /\ UNCHANGED <<feed, st, failure, error, alive, running, cur, yielded,
                 executed, sources, open, nput>>

\* ---------------------------------------------------------------- the caller
\* The assembler of the pipeline puts a content on a queue it owns.
Caller_put(q) ==
  /\ nput < MaxPut
  /\ nput' = nput + 1
  /\ LET p == put(q, nput + 1)
     IN  /\ fifo' = [fifo EXCEPT ![q] = p.fifo]
         /\ unfinished' = [unfinished EXCEPT ![q] = p.unfinished]
  /\ UNCHANGED <<feed, stageVars, sources, open>>

\* register raises, so the list handed out by the sources property is the one
\* way a source gets recorded: queue.sources.append(stage).
Caller_append(q, s) ==
  /\ st[s] = "made"
  /\ Len(sources["q1"]) + Len(sources["q2"]) + Len(sources["c1"]) < MaxSources
  /\ sources' = [sources EXCEPT ![q] = Append(@, s)]
  /\ UNCHANGED <<feed, stageVars, fifo, unfinished, open, nput>>

Next ==
  \/ \E s \in Stages : Producer_init(s)
       /\ UNCHANGED <<statusVars, stackVars, sliceVars>>
  \/ \E s \in Stages : Operation_init(s)
       /\ UNCHANGED <<statusVars, stackVars, sliceVars>>
  \/ \E s \in Stages : Consumer_init(s)
       /\ UNCHANGED <<statusVars, stackVars, sliceVars>>
  \/ \E s \in Stages : CacheProducer_init(s)
       /\ UNCHANGED <<statusVars, stackVars, sliceVars>>
  \/ \E s \in Stages : CacheConsumer_new(s)
       /\ UNCHANGED <<statusVars, stackVars, sliceVars>>
  \/ \E s \in Stages : Thread_start(s)
       /\ UNCHANGED <<statusVars, stackVars, sliceVars>>
  \/ \E s \in Stages : Thread_run(s)
       /\ UNCHANGED <<statusVars, stackVars, sliceVars>>
  \/ \E s \in Stages : process_while(s)
       /\ UNCHANGED <<statusVars, stackVars, sliceVars>>
  \/ \E s \in Stages : process_body(s)
       /\ UNCHANGED <<statusVars, stackVars, sliceVars>>
  \/ \E s \in Stages : process_next(s)
       /\ UNCHANGED <<statusVars, stackVars, sliceVars>>
  \/ \E s \in Stages : process_put(s)
       /\ UNCHANGED <<statusVars, stackVars, sliceVars>>
  \/ \E s \in Stages : Thread_except(s)
       /\ UNCHANGED <<statusVars, stackVars, sliceVars>>
  \/ \E s \in Stages : Thread_finally(s)
       /\ UNCHANGED <<statusVars, stackVars, sliceVars>>
  \/ \E s \in Stages : Thread_exit(s)
       /\ UNCHANGED <<statusVars, stackVars, sliceVars>>
  \/ \E s \in Stages : Thread_join(s)
       /\ UNCHANGED <<statusVars, stackVars, sliceVars>>
  \/ \E q \in Queues : Caller_put(q)
       /\ UNCHANGED <<statusVars, stackVars, sliceVars>>
  \/ \E q \in Queues, s \in Stages :
       Caller_append(q, s) /\ UNCHANGED <<statusVars, stackVars, sliceVars>>

Spec == Init /\ [][Next]_vars

\* The same pipeline with a producer that ends by raising the terminate
\* signal.
InitTerminate ==
  /\ PipelineStart(TerminatePlans)
  /\ StatusStart({FALSE})
  /\ StackStart
  /\ SliceStart({0})

SpecTerminate == InitTerminate /\ [][Next]_vars

\* ------------------------------------------------- status.py, the processes
\* One Switch shared by the views in `views`; each worker is a thread that
\* calls a view (set) or waits on it.  The statements of Switch.set are
\* separate steps, Switch.wait takes no lock.

\* A mutex that never makes a caller wait.
Lock_free_always == TRUE

\* The mutex of the switch is free; with self.__lock blocks until it is.
Lock_free == sw_lock = "None"

\* The name the next view gets: views are created in the order B, C.
Fresh(n) == n \notin views /\ \A m \in Views \ views : n = "B" \/ m # "B"

\* other = view.divergent(n)
View_divergent(v, n) ==
  /\ v \in views /\ Fresh(n)
  /\ views' = views \cup {n}
  /\ position' = [position EXCEPT ![n] = Status_divergent(position[v])]
  /\ origin' = [origin EXCEPT ![n] = [of |-> v, how |-> "divergent"]]
  /\ UNCHANGED <<sw_state, sw_on, sw_off, sw_lock, tpc, tview, treq, targ,
                 tres, seen>>

\* other = view.convergent(n)
View_convergent(v, n) ==
  /\ v \in views /\ Fresh(n)
  /\ views' = views \cup {n}
  /\ position' = [position EXCEPT ![n] = Status_convergent(position[v])]
  /\ origin' = [origin EXCEPT ![n] = [of |-> v, how |-> "convergent"]]
  /\ UNCHANGED <<sw_state, sw_on, sw_off, sw_lock, tpc, tview, treq, targ,
                 tres, seen>>

\* Worker t calls view(b): Status.__call__ hands bool(position) is bool(b) to
\* Switch.__call__, which calls Switch.set.
Call_set(t, v, b) ==
  /\ tpc[t] = "idle" /\ v \in views
  /\ tpc' = [tpc EXCEPT ![t] = "acquire"]
  /\ tview' = [tview EXCEPT ![t] = v]
  /\ treq' = [treq EXCEPT ![t] = b]
  /\ targ' = [targ EXCEPT ![t] = Status_call(position[v], b)]
  /\ tres' = [tres EXCEPT ![t] = "None"]
  /\ UNCHANGED <<sw_state, sw_on, sw_off, sw_lock, views, position, origin,
                 seen>>

\* Switch.set: with self.__lock
Switch_acquire(t) ==
  /\ tpc[t] = "acquire" /\ Lock_free
  /\ sw_lock' = t
  /\ tpc' = [tpc EXCEPT ![t] = "assign"]
  /\ UNCHANGED <<sw_state, sw_on, sw_off, views, position, origin, tview,
                 treq, targ, tres, seen>>

\* Switch.set: self.__state = state.  `seen` records for each waiting worker
\* whether its view has been true since its call.
Switch_assign(t) ==
  /\ tpc[t] = "assign"
  /\ sw_state' = targ[t]
  /\ seen' = [w \in Workers |->
                IF tpc[w] \in {"waiting", "notified"}
                THEN seen[w] \/ Status_bool(position[tview[w]], targ[t])
                ELSE seen[w]]
  /\ tpc' = [tpc EXCEPT ![t] = "first"]
  /\ UNCHANGED <<sw_on, sw_off, sw_lock, views, position, origin, tview,
                 treq, targ, tres>>

\* Event.set notifies the threads waiting on the event: a notified waiter
\* returns True even when the event is cleared before it runs again.
Notify(t, pos, flag) ==
  [w \in Workers |->
     IF w = t THEN "second"
     ELSE IF flag /\ tpc[w] = "waiting" /\ position[tview[w]] = pos
     THEN "notified" ELSE tpc[w]]

\* Switch.set: self.__on.set() for True, self.__on.clear() for False.
Switch_first(t) ==
  /\ tpc[t] = "first"
  /\ sw_on' = targ[t]
  /\ tpc' = Notify(t, TRUE, targ[t])
  /\ UNCHANGED <<sw_state, sw_off, sw_lock, views, position, origin, tview,
                 treq, targ, tres, seen>>

\* Switch.set: self.__off.clear() for True, self.__off.set() for False.
Switch_second(t) ==
  /\ tpc[t] = "second"
  /\ sw_off' = ~targ[t]
  /\ tpc' = [Notify(t, FALSE, ~targ[t]) EXCEPT ![t] = "release"]
  /\ UNCHANGED <<sw_state, sw_on, sw_lock, views, position, origin, tview,
                 treq, targ, tres, seen>>

\* Switch.set: the end of the with block, and the return of the call.
Switch_release(t) ==
  /\ tpc[t] = "release"
  /\ sw_lock' = "None"
  /\ tpc' = [tpc EXCEPT ![t] = "idle"]
  /\ UNCHANGED <<sw_state, sw_on, sw_off, views, position, origin, tview,
                 treq, targ, tres, seen>>

\* Worker t calls view.wait(timeout): Status.wait hands its position to
\* Switch.wait, which waits on one event without taking the lock.
Call_wait(t, v) ==
  /\ tpc[t] = "idle" /\ v \in views
  /\ tpc' = [tpc EXCEPT ![t] = "waiting"]
  /\ tview' = [tview EXCEPT ![t] = v]
  /\ tres' = [tres EXCEPT ![t] = "None"]
  /\ seen' = [seen EXCEPT ![t] = View_bool(v)]
  /\ UNCHANGED <<sw_state, sw_on, sw_off, sw_lock, views, position, origin,
                 treq, targ>>

\* Event.wait returns True: the flag is set, or the waiter was notified.
Wait_signalled(t) ==
  /\ \/ tpc[t] = "notified"
     \/ tpc[t] = "waiting" /\ Switch_event(position[tview[t]])
  /\ tpc' = [tpc EXCEPT ![t] = "idle"]
  /\ tres' = [tres EXCEPT ![t] = "True"]
  /\ UNCHANGED <<sw_state, sw_on, sw_off, sw_lock, views, position, origin,
                 tview, treq, targ, seen>>

\* Event.wait returns False: the timeout ran out with the flag not set and
\* no notification.
Wait_timeout(t) ==
  /\ tpc[t] = "waiting" /\ ~Switch_event(position[tview[t]])
  /\ tpc' = [tpc EXCEPT ![t] = "idle"]
  /\ tres' = [tres EXCEPT ![t] = "False"]
  /\ UNCHANGED <<sw_state, sw_on, sw_off, sw_lock, views, position, origin,
                 tview, treq, targ, seen>>

InitStatus ==
  /\ PipelineStart({[len |-> 0, ends |-> "stop"]})
  /\ StatusStart(BOOLEAN)
  /\ StackStart
  /\ SliceStart({0})

NextStatus ==
  \/ \E v, n \in Views : View_divergent(v, n)
       /\ UNCHANGED <<pipelineVars, stackVars, sliceVars>>
  \/ \E v, n \in Views : View_convergent(v, n)
       /\ UNCHANGED <<pipelineVars, stackVars, sliceVars>>
  \/ \E t \in Workers, v \in Views, b \in BOOLEAN :
       Call_set(t, v, b) /\ UNCHANGED <<pipelineVars, stackVars, sliceVars>>
  \/ \E t \in Workers : Switch_acquire(t)
       /\ UNCHANGED <<pipelineVars, stackVars, sliceVars>>
  \/ \E t \in Workers : Switch_assign(t)
       /\ UNCHANGED <<pipelineVars, stackVars, sliceVars>>
  \/ \E t \in Workers : Switch_first(t)
       /\ UNCHANGED <<pipelineVars, stackVars, sliceVars>>
  \/ \E t \in Workers : Switch_second(t)
       /\ UNCHANGED <<pipelineVars, stackVars, sliceVars>>
  \/ \E t \in Workers : Switch_release(t)
       /\ UNCHANGED <<pipelineVars, stackVars, sliceVars>>
  \/ \E t \in Workers, v \in Views :
       Call_wait(t, v) /\ UNCHANGED <<pipelineVars, stackVars, sliceVars>>
  \/ \E t \in Workers : Wait_signalled(t)
       /\ UNCHANGED <<pipelineVars, stackVars, sliceVars>>
  \/ \E t \in Workers : Wait_timeout(t)
       /\ UNCHANGED <<pipelineVars, stackVars, sliceVars>>

SpecStatus == InitStatus /\ [][NextStatus]_vars

\* ----------------------------------------------------------------- queue.py
\* The four events a Task publishes, and what Task.__exit__ hands to publish
\* for the default "failure", the value False.
Outcomes == {"Abandon", "Success", "Failure", "Error"}

min(a, b) == IF a < b THEN a ELSE b

\* Task.__init__: self.__defaults = dict(abandon=Abandon, success=Success,
\* failure=False, error=Error).
Task_defaults(d) ==
  CASE d = "abandon" -> "Abandon"
    [] d = "success" -> "Success"
    [] d = "failure" -> "False"
    [] d = "error" -> "Error"

\* Stack.__bool__ and Stack.__len__: those of the agenda.
Stack_bool(s) == stack_agenda[s] # <<>>
Stack_len(s) == Len(stack_agenda[s])

\* Stack.__init__: the events the stack subscribes a handler for.
Stack_events == {"Success", "Failure", "Abandon"}

\* Stack.success with the task put on the failure queue.
Stack_success_swapped(q, s, t) ==
  [q EXCEPT !.failure = [@ EXCEPT ![s] = Append(@, t)]]

\* Stack.abandon with the task put on the agenda twice.
Stack_abandon_twice(q, s, t) ==
  [q EXCEPT !.agenda = [@ EXCEPT ![s] = Append(Append(@, t), t)]]

\* Stack.abandon, Stack.success, Stack.failure: the task is put on the
\* agenda, the success queue, the failure queue of stack s.
Stack_abandon(q, s, t) ==
  [q EXCEPT !.agenda = [@ EXCEPT ![s] = Append(@, t)]]
Stack_success(q, s, t) ==
  [q EXCEPT !.success = [@ EXCEPT ![s] = Append(@, t)]]
Stack_failure(q, s, t) ==
  [q EXCEPT !.failure = [@ EXCEPT ![s] = Append(@, t)]]

\* The handlers of a stack with Error handled as Abandon is.
Stack_handle_retry(q, ev, s, t) ==
  CASE ev \in {"Abandon", "Error"} -> Stack_abandon(q, s, t)
    [] ev = "Success" -> Stack_success(q, s, t)
    [] ev = "Failure" -> Stack_failure(q, s, t)
    [] OTHER -> q

\* The handler stack s subscribed for the event, applied to the queues q.
Stack_handle(q, ev, s, t) ==
  CASE ev = "Abandon" -> Stack_abandon(q, s, t)
    [] ev = "Success" -> Stack_success(q, s, t)
    [] ev = "Failure" -> Stack_failure(q, s, t)
    [] OTHER -> q

\* Publisher.register and Publisher.unregister: the subscribers of a task
\* after the call.
Publisher_register(subs, s) == subs \cup {s}
Publisher_unregister(subs, s) == subs \ {s}

\* Publisher.publish(event, task): every registered subscriber that has a
\* handler for the event is called with the task.
RECURSIVE Publisher_publish(_, _, _, _)
Publisher_publish(q, ev, t, subs) ==
  IF subs = {} THEN q
  ELSE LET s == CHOOSE x \in subs : TRUE
       IN  Publisher_publish(Stack_handle(q, ev, s, t), ev, t, subs \ {s})

\* The three queues of every stack, as one record.
Queues_now ==
  [agenda |-> stack_agenda, success |-> stack_success,
   failure |-> stack_failure]

Published == LET n(t) == Len(published[t])
             IN  n("T1") + n("T2") + n("T3")

\* self.publish(event, self) from a Task: the handlers run with the mutex of
\* their stack, so the call goes through when those mutexes are free.
Task_publish(t, ev) ==
  /\ Published < MaxPublish
  /\ ev \in Stack_events => \A s \in subscribers[t] : stack_mutex[s] = "None"
  /\ published' = [published EXCEPT ![t] = Append(@, ev)]
  /\ LET q == Publisher_publish(Queues_now, ev, t, subscribers[t])
     IN  /\ stack_agenda' = q.agenda
         /\ stack_success' = q.success
         /\ stack_failure' = q.failure

\* task(default): Task.__call__ sets the default and returns None, so the
\* with block is entered by a statement of its own.
Task_call(t, d) ==
  /\ task_scope[t] = "out"
  /\ task_default' = [task_default EXCEPT ![t] = Task_defaults(d)]
  /\ UNCHANGED <<stack_agenda, stack_success, stack_failure, stack_mutex,
                 stacks, subscribers, task_result, task_scope, published,
                 checkedout, upc, ustack, usize, ures>>

\* with task: Task.__enter__
Task_enter(t) ==
  /\ task_scope[t] = "out"
  /\ task_scope' = [task_scope EXCEPT ![t] = "in"]
  /\ UNCHANGED <<stack_agenda, stack_success, stack_failure, stack_mutex,
                 stacks, subscribers, task_default, task_result, published,
                 checkedout, upc, ustack, usize, ures>>

\* Task.abandon, Task.success, Task.failure, Task.error: publish, and
\* nothing else.
Task_outcome(t, ev) ==
  /\ task_scope[t] \in {"out", "in"}
  /\ Task_publish(t, ev)
  /\ UNCHANGED <<stack_mutex, stacks, subscribers, task_default, task_result,
                 task_scope, checkedout, upc, ustack, usize, ures>>

\* Task.__exit__: err says whether an exception is leaving the block.  The
\* block ends "exited" after a normal exit, "raised" when the exception goes
\* on (__exit__ returns None), "AssertionError" when an assert fails.
Task_exit(t, err) ==
  /\ task_scope[t] = "in"
  /\ IF err /\ task_result[t] = "None"
     THEN /\ Task_publish(t, "Error")
          /\ task_scope' = [task_scope EXCEPT ![t] = "raised"]
     ELSE IF err
     THEN /\ task_scope' = [task_scope EXCEPT ![t] =
               IF task_result[t] = "Error" THEN "raised"
                                           ELSE "AssertionError"]
          /\ UNCHANGED <<stack_agenda, stack_success, stack_failure,
                         published>>
     ELSE IF task_result[t] = "None"
     THEN IF task_default[t] = "None"
          THEN /\ task_scope' = [task_scope EXCEPT ![t] = "AssertionError"]
               /\ UNCHANGED <<stack_agenda, stack_success, stack_failure,
                              published>>
          ELSE /\ Task_publish(t, task_default[t])
               /\ task_scope' = [task_scope EXCEPT ![t] = "exited"]
     ELSE /\ task_scope' = [task_scope EXCEPT ![t] =
               IF task_result[t] # "Error" THEN "exited"
                                           ELSE "AssertionError"]
          /\ UNCHANGED <<stack_agenda, stack_success, stack_failure,
                         published>>
  /\ UNCHANGED <<stack_mutex, stacks, subscribers, task_default, task_result,
                 checkedout, upc, ustack, usize, ures>>

\* Stack.checkout: if not bool(self): raise StopIteration, read without the
\* mutex.
Checkout_check(u, s) ==
  /\ upc[u] = "idle" /\ s \in stacks
  /\ IF ~Stack_bool(s)
     THEN /\ ures' = [ures EXCEPT ![u] = "StopIteration"]
          /\ UNCHANGED <<upc, ustack>>
     ELSE /\ ures' = [ures EXCEPT ![u] = "None"]
          /\ ustack' = [ustack EXCEPT ![u] = s]
          /\ upc' = [upc EXCEPT ![u] = "lock"]
  /\ UNCHANGED <<stack_agenda, stack_success, stack_failure, stack_mutex,
                 stacks, subscribers, task_default, task_result, task_scope,
                 published, checkedout, usize>>

\* Stack.checkout: with self.mutex
Checkout_lock(u) ==
  /\ upc[u] = "lock" /\ stack_mutex[ustack[u]] = "None"
  /\ stack_mutex' = [stack_mutex EXCEPT ![ustack[u]] = u]
  /\ upc' = [upc EXCEPT ![u] = "get"]
  /\ UNCHANGED <<stack_agenda, stack_success, stack_failure, stacks,
                 subscribers, task_default, task_result, task_scope,
                 published, checkedout, ustack, usize, ures>>

\* Stack.checkout: taskitem = self.__agenda.get(), a get that blocks while
\* the agenda is empty, then the return, which releases the mutex.
Checkout_get(u) ==
  /\ upc[u] = "get" /\ stack_agenda[ustack[u]] # <<>>
  /\ LET t == Head(stack_agenda[ustack[u]])
     IN  checkedout' = [checkedout EXCEPT ![t] = @ + 1]
  /\ stack_agenda' = [stack_agenda EXCEPT ![ustack[u]] = Tail(@)]
  /\ stack_mutex' = [stack_mutex EXCEPT ![ustack[u]] = "None"]
  /\ ures' = [ures EXCEPT ![u] = "Task"]
  /\ ustack' = [ustack EXCEPT ![u] = "None"]
  /\ upc' = [upc EXCEPT ![u] = "idle"]
  /\ UNCHANGED <<stack_success, stack_failure, stacks, subscribers,
                 task_default, task_result, task_scope, published, usize>>

\* The Stack instance a constructor call makes next.
NewStack == CHOOSE s \in Stacks \ stacks : TRUE

\* Stack.export: the number of tasks taken, min([int(size), len(self)]).
Export_size_all(size, len) == len
Export_size(size, len) == min(size, len)

\* Stack.export: if not bool(self), read without the mutex, the result is a
\* new Stack of no tasks.
Export_check(u, s, size) ==
  /\ upc[u] = "idle" /\ s \in stacks /\ stacks # Stacks
  /\ IF ~Stack_bool(s)
     THEN /\ stacks' = stacks \cup {NewStack}
          /\ ures' = [ures EXCEPT ![u] = "Stack"]
          /\ UNCHANGED <<upc, ustack, usize>>
     ELSE /\ stacks' = stacks
          /\ ures' = [ures EXCEPT ![u] = "None"]
          /\ ustack' = [ustack EXCEPT ![u] = s]
          /\ usize' = [usize EXCEPT ![u] = size]
          /\ upc' = [upc EXCEPT ![u] = "export"]
  /\ UNCHANGED <<stack_agenda, stack_success, stack_failure, stack_mutex,
                 subscribers, task_default, task_result, task_scope,
                 published, checkedout>>

\* The tasks export takes from stack s, in the order of the agenda.
Export_taken(s, size) ==
  SubSeq(stack_agenda[s], 1, Export_size(size, Stack_len(s)))

\* Stack.export: the block under self.mutex.  Each task taken is got from
\* the agenda and unregistered from this stack; the new Stack's scheduler
\* registers the new stack with it and puts it on the new agenda.
Export_body(u) ==
  /\ upc[u] = "export" /\ stack_mutex[ustack[u]] = "None"
  /\ stacks # Stacks
  /\ LET s == ustack[u]
         taken == Export_taken(s, usize[u])
         moved == {taken[i] : i \in DOMAIN taken}
     IN  /\ stack_agenda' = [stack_agenda EXCEPT
               ![s] = SubSeq(@, Len(taken) + 1, Len(@)),
               ![NewStack] = taken]
         /\ subscribers' = [t \in Tasks |->
               IF t \in moved
               THEN Publisher_register(
                      Publisher_unregister(subscribers[t], s), NewStack)
               ELSE subscribers[t]]
  /\ stacks' = stacks \cup {NewStack}
  /\ ures' = [ures EXCEPT ![u] = "Stack"]
  /\ ustack' = [ustack EXCEPT ![u] = "None"]
  /\ usize' = [usize EXCEPT ![u] = 0]
  /\ upc' = [upc EXCEPT ![u] = "idle"]
  /\ UNCHANGED <<stack_success, stack_failure, stack_mutex, task_default,
                 task_result, task_scope, published, checkedout>>

InitStack ==
  /\ PipelineStart({[len |-> 0, ends |-> "stop"]})
  /\ StatusStart({FALSE})
  /\ StackStart
  /\ SliceStart({0})

\* One thread checks tasks out of the stacks and exports them, while the
\* tasks publish the outcomes a Stack has a handler for.
NextStack ==
  \/ \E t \in Tasks, ev \in Stack_events :
       Task_outcome(t, ev) /\ UNCHANGED <<pipelineVars, statusVars, sliceVars>>
  \/ \E s \in Stacks :
       Checkout_check(Worker, s)
         /\ UNCHANGED <<pipelineVars, statusVars, sliceVars>>
  \/ Checkout_lock(Worker) /\ UNCHANGED <<pipelineVars, statusVars, sliceVars>>
  \/ Checkout_get(Worker) /\ UNCHANGED <<pipelineVars, statusVars, sliceVars>>
  \/ \E s \in Stacks, size \in 0 .. MaxSize :
       Export_check(Worker, s, size)
         /\ UNCHANGED <<pipelineVars, statusVars, sliceVars>>
  \/ Export_body(Worker) /\ UNCHANGED <<pipelineVars, statusVars, sliceVars>>

SpecStack == InitStack /\ [][NextStack]_vars

\* Two threads check tasks out of one Stack at the same time, while the tasks
\* publish the outcomes the Stack has a handler for.
NextCheckout ==
  \/ \E t \in Tasks, ev \in Stack_events :
       Task_outcome(t, ev) /\ UNCHANGED <<pipelineVars, statusVars, sliceVars>>
  \/ \E u \in Callers, s \in Stacks :
       Checkout_check(u, s)
         /\ UNCHANGED <<pipelineVars, statusVars, sliceVars>>
  \/ \E u \in Callers :
       Checkout_lock(u) /\ UNCHANGED <<pipelineVars, statusVars, sliceVars>>
  \/ \E u \in Callers :
       Checkout_get(u) /\ UNCHANGED <<pipelineVars, statusVars, sliceVars>>

SpecCheckout == InitStack /\ [][NextCheckout]_vars

\* One task is run in a with block; every task publishes outcomes to the
\* stack it is scheduled on.
NextTask ==
  \/ \E d \in {"abandon", "success", "failure", "error"} :
       Task_call(Scoped, d)
         /\ UNCHANGED <<pipelineVars, statusVars, sliceVars>>
  \/ Task_enter(Scoped) /\ UNCHANGED <<pipelineVars, statusVars, sliceVars>>
  \/ \E t \in Tasks, ev \in Outcomes :
       Task_outcome(t, ev) /\ UNCHANGED <<pipelineVars, statusVars, sliceVars>>
  \/ \E err \in BOOLEAN :
       Task_exit(Scoped, err)
         /\ UNCHANGED <<pipelineVars, statusVars, sliceVars>>

SpecTask == InitStack /\ [][NextTask]_vars

\* Stack([T1, T2], file=...) and a third task that no stack has been given.
ScheduleStart ==
  /\ stack_agenda = [s \in Stacks |-> IF s = "S" THEN <<"T1", "T2">> ELSE <<>>]
  /\ stack_success = [s \in Stacks |-> <<>>]
  /\ stack_failure = [s \in Stacks |-> <<>>]
  /\ stack_mutex = [s \in Stacks |-> "None"]
  /\ stacks = {"S"}
  /\ subscribers = [t \in Tasks |-> IF t = "T3" THEN {} ELSE {"S"}]
  /\ task_default = [t \in Tasks |-> "None"]
  /\ task_result = [t \in Tasks |-> "None"]
  /\ task_scope = [t \in Tasks |-> "out"]
  /\ published = [t \in Tasks |-> <<>>]
  /\ checkedout = [t \in Tasks |-> 0]
  /\ upc = [u \in Callers |-> "idle"]
  /\ ustack = [u \in Callers |-> "None"]
  /\ usize = [u \in Callers |-> 0]
  /\ ures = [u \in Callers |-> "None"]

InitSchedule ==
  /\ PipelineStart({[len |-> 0, ends |-> "stop"]})
  /\ StatusStart({FALSE})
  /\ ScheduleStart
  /\ SliceStart({0})

\* Stack.schedule(taskitem) for a task no stack holds yet: under the mutex,
\* the stack is registered with the task and the task is put on the agenda.
Stack_schedule(s, t) ==
  /\ s \in stacks /\ stack_mutex[s] = "None"
  /\ subscribers[t] = {}
  /\ subscribers' = [subscribers EXCEPT ![t] = Publisher_register(@, s)]
  /\ stack_agenda' = [stack_agenda EXCEPT ![s] = Append(@, t)]
  /\ UNCHANGED <<stack_success, stack_failure, stack_mutex, stacks,
                 task_default, task_result, task_scope, published, checkedout,
                 upc, ustack, usize, ures>>

\* The worker that holds a task from a checkout publishes the one outcome of
\* that checkout.
Worker_outcome(t, ev) ==
  /\ checkedout[t] > Len(published[t])
  /\ Task_outcome(t, ev)

\* Two threads check tasks out, one of them also exports, tasks are
\* scheduled, and every task checked out publishes one outcome a Stack has a
\* handler for.
NextSchedule ==
  \/ \E s \in Stacks, t \in Tasks :
       Stack_schedule(s, t) /\ UNCHANGED <<pipelineVars, statusVars, sliceVars>>
  \/ \E t \in Tasks, ev \in Stack_events :
       Worker_outcome(t, ev) /\ UNCHANGED <<pipelineVars, statusVars, sliceVars>>
  \/ \E u \in Callers, s \in Stacks :
       Checkout_check(u, s)
         /\ UNCHANGED <<pipelineVars, statusVars, sliceVars>>
  \/ \E u \in Callers :
       Checkout_lock(u) /\ UNCHANGED <<pipelineVars, statusVars, sliceVars>>
  \/ \E u \in Callers :
       Checkout_get(u) /\ UNCHANGED <<pipelineVars, statusVars, sliceVars>>
  \/ \E s \in Stacks, size \in 0 .. MaxSize :
       Export_check(Worker, s, size)
         /\ UNCHANGED <<pipelineVars, statusVars, sliceVars>>
  \/ Export_body(Worker) /\ UNCHANGED <<pipelineVars, statusVars, sliceVars>>

SpecSchedule == InitSchedule /\ [][NextSchedule]_vars

\* ------------------------------------------------- queue.py, the task Queue
\* What a call on the Queue has returned.
Returned(k, v) == [kind |-> k, value |-> v]

\* queue[size], Queue.__getitem__ up to the loop's range: the assert, `with
\* self.mutex`, which waits for the mutex of queue.Queue and holds it to the
\* return, and the new Queue of no items.
TaskQueue_getitem(u, size) ==
  /\ gpc[u] = "idle" /\ queue_mutex = "None"
  /\ queue_mutex' = u
  /\ gsize' = [gsize EXCEPT ![u] = size]
  /\ instance' = [instance EXCEPT ![u] = <<>>]
  /\ gres' = [gres EXCEPT ![u] = Returned("None", 0)]
  /\ gpc' = [gpc EXCEPT ![u] = "len"]
  /\ UNCHANGED <<queue_items, gleft>>

\* len(queue), Queue.__len__: a call of qsize.
TaskQueue_len(u) ==
  /\ gpc[u] = "idle"
  /\ gres' = [gres EXCEPT ![u] = Returned("None", 0)]
  /\ gpc' = [gpc EXCEPT ![u] = "size"]
  /\ UNCHANGED <<queue_items, queue_mutex, gsize, gleft, instance>>

\* queue.Queue.qsize: `with self.mutex: return self._qsize()`, a lock that
\* is not reentrant.  Called by len(queue), and by the len(self) in the range
\* of __getitem__'s loop: range(min([int(size), len(self)])); a range of no
\* passes goes on to the return, which lets go of the mutex.
TaskQueue_qsize(u) ==
  /\ gpc[u] \in {"size", "len"} /\ queue_mutex = "None"
  /\ IF gpc[u] = "size"
     THEN /\ gres' = [gres EXCEPT ![u] = Returned("int", Len(queue_items))]
          /\ gpc' = [gpc EXCEPT ![u] = "idle"]
          /\ UNCHANGED <<queue_mutex, gleft>>
     ELSE LET k == min(gsize[u], Len(queue_items))
          IN  /\ gleft' = [gleft EXCEPT ![u] = k]
              /\ IF k = 0
                 THEN /\ gres' = [gres EXCEPT ![u] = Returned("Queue", 0)]
                      /\ gpc' = [gpc EXCEPT ![u] = "idle"]
                      /\ queue_mutex' = "None"
                 ELSE /\ gpc' = [gpc EXCEPT ![u] = "loop"]
                      /\ UNCHANGED <<gres, queue_mutex>>
  /\ UNCHANGED <<queue_items, gsize, instance>>

\* queue.get() called by a thread.
TaskQueue_get(u) ==
  /\ gpc[u] = "idle"
  /\ gres' = [gres EXCEPT ![u] = Returned("None", 0)]
  /\ gpc' = [gpc EXCEPT ![u] = "get"]
  /\ UNCHANGED <<queue_items, queue_mutex, gsize, gleft, instance>>

\* queue.Queue.get: `with self.not_empty`, the condition on the mutex, then
\* the wait for an item and the popleft.  Called by queue.get(), and by
\* instance.put(self.get()) in a pass of __getitem__'s loop; after the last
\* pass __getitem__ returns the new Queue and lets go of the mutex.
TaskQueue_take(u) ==
  /\ gpc[u] \in {"get", "loop"} /\ queue_mutex = "None"
  /\ queue_items # <<>>
  /\ queue_items' = Tail(queue_items)
  /\ IF gpc[u] = "get"
     THEN /\ gres' = [gres EXCEPT ![u] = Returned("item", Head(queue_items))]
          /\ gpc' = [gpc EXCEPT ![u] = "idle"]
          /\ UNCHANGED <<queue_mutex, gleft, instance>>
     ELSE /\ instance' = [instance EXCEPT ![u] = Append(@, Head(queue_items))]
          /\ gleft' = [gleft EXCEPT ![u] = @ - 1]
          /\ IF gleft[u] = 1
             THEN /\ gres' = [gres EXCEPT ![u] = Returned("Queue", 0)]
                  /\ gpc' = [gpc EXCEPT ![u] = "idle"]
                  /\ queue_mutex' = "None"
             ELSE UNCHANGED <<gres, gpc, queue_mutex>>
  /\ UNCHANGED gsize

\* queue.put(item): queue.Queue.put on an unbounded queue, under the mutex.
TaskQueue_put(u, item) ==
  /\ gpc[u] = "idle" /\ queue_mutex = "None"
  /\ Len(queue_items) < MaxItems + MaxPut
  /\ queue_items' = Append(queue_items, item)
  /\ UNCHANGED <<queue_mutex, gpc, gsize, gleft, instance, gres>>

InitSlice ==
  /\ PipelineStart({[len |-> 0, ends |-> "stop"]})
  /\ StatusStart({FALSE})
  /\ StackStart
  /\ SliceStart(0 .. MaxItems)

\* Two threads use one Queue: they put, get, take its length and slice it.
NextSlice ==
  \/ \E u \in Callers, size \in 0 .. MaxSize :
       TaskQueue_getitem(u, size)
         /\ UNCHANGED <<pipelineVars, statusVars, stackVars>>
  \/ \E u \in Callers :
       TaskQueue_len(u) /\ UNCHANGED <<pipelineVars, statusVars, stackVars>>
  \/ \E u \in Callers :
       TaskQueue_qsize(u) /\ UNCHANGED <<pipelineVars, statusVars, stackVars>>
  \/ \E u \in Callers :
       TaskQueue_get(u) /\ UNCHANGED <<pipelineVars, statusVars, stackVars>>
  \/ \E u \in Callers :
       TaskQueue_take(u) /\ UNCHANGED <<pipelineVars, statusVars, stackVars>>
  \/ \E u \in Callers, item \in 1 .. MaxItems :
       TaskQueue_put(u, item)
         /\ UNCHANGED <<pipelineVars, statusVars, stackVars>>

SpecSlice == InitSlice /\ [][NextSlice]_vars

\* ================================================================== claims
\* The stages that put on a queue by their wiring, and the stages recorded in
\* its list of sources.
Feeders(q) == {s \in Stages : destination[s] = q}
Registered(q) == {sources[q][i] : i \in DOMAIN sources[q]}

\* The Closed status of a queue: only a Cache carries an Open status, and
\* Closed is its complement.
Closed(q) == q \in Caches /\ ~Cache_open(q)

\* The stage is inside its consume loop, or it leaves it in this step.
InLoop(s) == pc[s] \in {"loop", "body"}
LeavesLoop(s) == InLoop(s) /\ ~InLoop(s)'

\* The contents 1..n in order.
Items(n) == [i \in 1..n |-> i]

\* The chain has come to rest: every constructor was called, and every stage
\* that exists was started and its thread is over.
ChainDone ==
  \A s \in Chain : st[s] # "absent" /\ (st[s] = "made" => pc[s] = "terminated")

\* C1: in every state where .failure or .error of a producing stage is set,
\* its destination is already Closed.
C1_ClosedBeforeCapture ==
  \A s \in Stages :
    (destination[s] # "None" /\ (failure[s] # "None" \/ error[s] # "None"))
      => Closed(destination[s])

\* C2: once every stage feeding its source is over, a Consumer or transform
\* leaves its loop only with its source drained.
C2_ExitsDrained ==
  [][\A s \in Stages :
       (LeavesLoop(s) /\ \A u \in Feeders(source[s]) : ~is_alive(u))
         => Queue_empty(source[s])]_vars

\* C3: while a stage recorded as a source of a queue is mid-production (its
\* thread started and not over), no other stage reading that queue leaves its
\* loop.
C3_NoExitWhileSourceLive ==
  [][\A s \in Stages :
       LeavesLoop(s)
         => ~\E u \in Registered(source[s]) \ {s} : is_alive(u)]_vars

\* C4: when the chain Producer -> transform -> Consumer fed with N items has
\* come to rest, the Consumer's execute was called on exactly the N items, in
\* production order.
C4_ExecutedExactlyN ==
  ChainDone => executed["C"] = Items(feed.len)

\* C5: the chain terminates with all three stages finished: when no stage of
\* the chain can take a step any more, each of them has run and is idle.
C5_ChainFinishes ==
  ChainDone => \A s \in Chain : st[s] = "made" /\ ~running[s]

\* C6: a Producer whose execute yields a finite sequence and stops without
\* raising has put exactly that sequence on its destination.
C6_SentIsYielded ==
  \A s \in Stages :
    (  destination[s] # "None" /\ source[s] = "None"
    /\ pc[s] = "terminated" /\ feed.ends = "stop"
    /\ failure[s] = "None" /\ error[s] = "None")
      => sent[s] = Items(feed.len)

\* C7: after a Producer has exhausted its execute normally, its destination
\* is Closed (Closed has gone from false to true, once).
C7_ClosedAfterExhaustion ==
  \A s \in Stages :
    (  destination[s] # "None" /\ source[s] = "None"
    /\ pc[s] = "terminated" /\ feed.ends = "stop" /\ yielded[s] = feed.len
    /\ failure[s] = "None" /\ error[s] = "None")
      => Closed(destination[s])

\* C8: Closed propagates down the chain: when the chain has come to rest,
\* every stage of it that owns a destination has closed it.
C8_ClosedPropagates ==
  ChainDone => \A s \in Chain : destination[s] # "None" => Closed(destination[s])

\* C9: the liveness of a queue is (FIFO not empty) or (a recorded source is
\* alive): with no source it is "not empty", and a live source makes the queue
\* live even when its FIFO is empty.
C9_Liveness ==
  \A q \in Queues :
    /\ Queue_bool(q) <=> (Len(fifo[q]) > 0 \/ \E u \in Registered(q) : is_alive(u))
    /\ Registered(q) = {} => (Queue_bool(q) <=> Len(fifo[q]) > 0)
    /\ (\E u \in Registered(q) : is_alive(u)) => Queue_bool(q)

\* C9, its case: the Consumer has found its source live (it is past its loop
\* condition) because of a live source alone, the FIFO being empty.
C9_Witness ==
  /\ pc["C"] = "body"
  /\ Len(fifo[source["C"]]) = 0
  /\ \E u \in Registered(source["C"]) : is_alive(u)

\* C10: join on a stage that owns a destination returns only when its own
\* thread is over and the destination is not live.
C10_JoinWaitsForDrain ==
  [][\A s \in Stages :
       (destination[s] # "None" /\ alive[s] /\ ~alive'[s])
         => (pc[s] = "terminated" /\ ~Queue_bool(destination[s]))]_vars

\* C11: process ends in exactly one of three ways: a normal return leaves
\* .failure and .error unset, a recognized kind sets .failure alone, any other
\* exception sets .error alone; never are both set.
C11_OneOutcome ==
  \A s \in Stages :
    /\ ~(failure[s] # "None" /\ error[s] # "None")
    /\ pc[s] \in {"finally", "return", "terminated"} =>
         IF exc[s] = "None"
         THEN failure[s] = "None" /\ error[s] = "None"
         ELSE IF exc[s] \in failures[s]
         THEN failure[s] = exc[s] /\ error[s] = "None"
         ELSE error[s] = exc[s] /\ failure[s] = "None"

\* C11, its cases: one stage has ended on a recognized failure and another on
\* an exception of no recognized kind.
C11_Witness ==
  /\ \E s \in Stages : pc[s] = "terminated" /\ failure[s] = "Recognized"
  /\ \E s \in Stages : pc[s] = "terminated" /\ error[s] = "AttributeError"

\* The thread has entered process and process has not yet ended.
InProcess(s) == pc[s] \in {"loop", "body", "iterate", "receive"}

\* Every exception that left process is kept on the stage, none is lost.
Captured(s) ==
  (pc[s] \in {"finally", "return", "terminated"} /\ exc[s] # "None")
    => (failure[s] = exc[s] \/ error[s] = exc[s])

\* C12 as stated: idle from construction, running from start() on, idle
\* again once the thread is over; Running and Idle complementary.
C12_RunningOnStart ==
  \A s \in Stages :
    /\ Running(s) # Idle(s)
    /\ pc[s] = "new" => Idle(s)
    /\ (pc[s] = "run" \/ InProcess(s)) => Running(s)
    /\ pc[s] \in {"return", "terminated"} => Idle(s)
    /\ Captured(s)

\* C12 as amended: idle from construction and still idle after start() until
\* run() begins (start sets only Alive), running while process runs, idle
\* again once run is over whatever ended process; Running and Idle
\* complementary; every exception of process is captured on the stage.
C12_Lifecycle ==
  \A s \in Stages :
    /\ Running(s) # Idle(s)
    /\ pc[s] \in {"new", "run"} => Idle(s)
    /\ pc[s] = "run" => Alive(s)
    /\ InProcess(s) => Running(s)
    /\ pc[s] \in {"return", "terminated"} => Idle(s)
    /\ Captured(s)

\* C12, its case: a thread that ended on an unrecognized error is idle again.
C12_Witness ==
  \E s \in Stages :
    pc[s] = "terminated" /\ error[s] # "None" /\ Idle(s) /\ ~Running(s)

\* C13: for every pair of a view and its divergent view on one switch, in
\* every reachable state (whatever step of set or wait any thread is at)
\* exactly one of the two is true, and a convergent view always has the value
\* of the view it was made from.
C13_DivergentConvergent ==
  \A v \in views :
    /\ origin[v].how = "divergent" =>
         View_bool(v) # View_bool(origin[v].of)
    /\ origin[v].how = "convergent" =>
         View_bool(v) = View_bool(origin[v].of)

\* A divergent view of a divergent view and a convergent view both exist while
\* a set is between its statements.
C13_Witness ==
  /\ \E v \in views : origin[v].how = "divergent"
                        /\ origin[origin[v].of].how = "divergent"
  /\ \E t \in Workers : tpc[t] = "second" /\ sw_on = sw_off
  /\ C13_DivergentConvergent

\* C14: when view(b) returns, the switch holds bool(position) is bool(b), so
\* the view reads b, every view of the same position reads b and every view
\* of the other position reads not b, and both events agree with the switch;
\* at most one thread is inside the with block of set, so the value is that of
\* the call that released last.
C14_SetAtomic ==
  [][\A t \in Workers :
       (tpc[t] = "release" /\ tpc'[t] = "idle") =>
         /\ sw_state' = Status_call(position[tview[t]], treq[t])
         /\ \A v \in views :
              Status_bool(position[v], sw_state') =
                IF position[v] = position[tview[t]] THEN treq[t]
                                                    ELSE ~treq[t]
         /\ sw_on' = sw_state' /\ sw_off' = ~sw_state'
         /\ \A w \in Workers \ {t} :
              tpc[w] \notin {"assign", "first", "second", "release"}]_vars

\* A set on a view of position False has returned while the other worker is
\* blocked at the lock with the opposite request, and views of both positions
\* exist.
C14_Witness ==
  \E t, w \in Workers :
    /\ tpc[t] = "idle" /\ tres[t] = "None" /\ position[tview[t]] = FALSE
    /\ treq[t] = TRUE /\ View_bool(tview[t])
    /\ tpc[w] = "acquire" /\ targ[w] # targ[t]
    /\ sw_lock = "None"

\* C15: a wait that has returned True saw its view true at some moment
\* between the call and the return, and while no thread is inside the with
\* block of set the on event is set iff the switch is true and the off event
\* iff it is false.
C15_WaitSawTrue ==
  /\ \A t \in Workers : (tpc[t] = "idle" /\ tres[t] = "True") => seen[t]
  /\ Lock_free => (sw_on = sw_state /\ sw_off = ~sw_state)

\* The outcomes of the scenario have been published, each once: Success by
\* T1, Failure by T2, Abandon by T3, and no export has made a second stack.
ScenarioPublished ==
  /\ published = [t \in Tasks |->
       CASE t = "T1" -> <<"Success">>
         [] t = "T2" -> <<"Failure">>
         [] t = "T3" -> <<"Abandon">>]
  /\ stacks = {"S"}

\* The queues of the scenario's end: T1 succeeded, T2 failed, T3 pending.
ScenarioRouted ==
  /\ stack_success["S"] = <<"T1">>
  /\ stack_failure["S"] = <<"T2">>
  /\ stack_agenda["S"] = <<"T3">>
  /\ Stack_len("S") = 1

\* C16 as stated: after scheduling [T1, T2, T3] and publishing Success(T1),
\* Failure(T2), Abandon(T3) the success queue is {T1}, the failure queue
\* {T2}, the agenda {T3} and len(stack) is 1.
C16_Scenario == ScenarioPublished => ScenarioRouted

\* A step in which task t publishes ev puts t on the agenda (Abandon), the
\* success queue (Success) or the failure queue (Failure) of the stacks that
\* subscribe to t, and changes no other queue.
RouteStep ==
  \A t \in Tasks, ev \in Stack_events :
    published'[t] = Append(published[t], ev) =>
      \A s \in Stacks :
        LET to(q, e) == IF s \in subscribers[t] /\ ev = e
                        THEN Append(q, t) ELSE q
        IN  /\ stack_agenda'[s] = to(stack_agenda[s], "Abandon")
            /\ stack_success'[s] = to(stack_success[s], "Success")
            /\ stack_failure'[s] = to(stack_failure[s], "Failure")

\* C16 amended: every publication is routed by its event, and after
\* scheduling [T1, T2, T3], checking each task out once and publishing
\* Success(T1), Failure(T2), Abandon(T3), the success queue is {T1}, the
\* failure queue {T2}, the agenda {T3} and len(stack) is 1.
C16_Routing ==
  /\ []((ScenarioPublished /\ \A t \in Tasks : checkedout[t] = 1)
          => ScenarioRouted)
  /\ [][RouteStep]_vars

\* The scenario has been played with its checkouts.
C16_Witness ==
  /\ ScenarioPublished /\ \A t \in Tasks : checkedout[t] = 1
  /\ ScenarioRouted

\* How often x occurs in the sequence seq.
Count(seq, x) == Cardinality({i \in DOMAIN seq : seq[i] = x})

\* Every entry of an agenda is returned by at most one checkout: a task is
\* returned once for its scheduling and once more for each Abandon.
ReturnedOnce ==
  \A t \in Tasks : checkedout[t] <= 1 + Count(published[t], "Abandon")

\* A checkout is blocked for good: it holds the mutex and waits in get on an
\* empty agenda, which only calls that need the same mutex can fill.
Stuck(u) ==
  /\ upc[u] = "get"
  /\ stack_mutex[ustack[u]] = u
  /\ stack_agenda[ustack[u]] = <<>>

\* C17: with concurrent checkout calls on one Stack each pending task is
\* returned to at most one caller, and no checkout blocks: one that finds
\* the agenda empty raises StopIteration.
C17_CheckoutAtomic ==
  /\ ReturnedOnce
  /\ \A u \in Callers : ~Stuck(u)

\* The step in which the export of caller u on stack s returns its new Stack.
Exported(u, s) ==
  /\ upc[u] = "export" /\ upc'[u] = "idle" /\ ustack[u] = s

\* C18: export(n) on a stack with m pending tasks returns a new Stack that
\* holds the first min(n, m) pending tasks in their order and nothing else,
\* leaves the other m - min(n, m) on the original in their order, and
\* unsubscribes the exported tasks from the original, so that an outcome an
\* exported task publishes afterwards changes no queue of the original; an
\* export that finds no pending task returns a new Stack of no tasks.
C18_Export ==
  [][/\ \A u \in Callers, s \in Stacks :
          Exported(u, s) =>
            LET m == Len(stack_agenda[s])
                k == min(usize[u], m)
                new == CHOOSE x \in stacks' : x \notin stacks
            IN  /\ stacks' \ stacks = {new}
                /\ stack_agenda'[new] = SubSeq(stack_agenda[s], 1, k)
                /\ Len(stack_agenda'[new]) = k
                /\ stack_success'[new] = <<>> /\ stack_failure'[new] = <<>>
                /\ stack_agenda'[s] = SubSeq(stack_agenda[s], k + 1, m)
                /\ Len(stack_agenda'[s]) = m - k
                /\ \A i \in 1 .. k :
                     subscribers'[stack_agenda[s][i]] =
                       (subscribers[stack_agenda[s][i]] \ {s}) \cup {new}
     /\ (stacks' # stacks /\ \A u \in Callers : ~Exported(u, ustack[u])) =>
          /\ \E s \in stacks : stack_agenda[s] = <<>>
          /\ \A x \in stacks' \ stacks : stack_agenda'[x] = <<>>
          /\ \A s \in stacks : stack_agenda'[s] = stack_agenda[s]
          /\ subscribers' = subscribers
     /\ \A t \in Tasks, s \in Stacks :
          (s \notin subscribers[t] /\ published'[t] # published[t]) =>
            /\ stack_agenda'[s] = stack_agenda[s]
            /\ stack_success'[s] = stack_success[s]
            /\ stack_failure'[s] = stack_failure[s]
    ]_vars

\* An export of two of three pending tasks has returned, and an exported
\* task has then published Success, which the new stack has routed.
C18_Witness ==
  /\ stacks = Stacks
  /\ stack_agenda["X"] = <<"T1", "T2">>
  /\ stack_agenda["S"] = <<"T3">>
  /\ published["T1"] = <<"Success">>
  /\ stack_success["X"] = <<"T1">> /\ stack_success["S"] = <<>>

\* The event that corresponds to a declarable default.
Declared(d) ==
  CASE d = "abandon" -> "Abandon"
    [] d = "success" -> "Success"
    [] d = "failure" -> "Failure"
    [] d = "error" -> "Error"

\* C19: when a with block is left normally with no outcome published, the
\* outcome published is the event that corresponds to the declared default,
\* for each of abandon, success, failure and error; when it is left by an
\* exception with no outcome set, Error is published.
C19_ScopedDefault ==
  [][/\ \A t \in Tasks, d \in {"abandon", "success", "failure", "error"} :
          (task_scope[t] = "in" /\ task_scope'[t] = "exited"
             /\ published[t] = <<>> /\ task_default[t] = Task_defaults(d)) =>
            published'[t] = <<Declared(d)>>
     /\ \A t \in Tasks :
          (task_scope[t] = "in" /\ task_scope'[t] = "raised"
             /\ published[t] = <<>>) =>
            published'[t] = <<"Error">>
    ]_vars

\* C20: a task publishes exactly one outcome: when its with block is over
\* one outcome has been published, not two, also when success(), failure(),
\* abandon() or error() was called in the block.
C20_OneOutcome ==
  \A t \in Tasks :
    task_scope[t] \in {"exited", "raised"} => Len(published[t]) = 1

\* C21: a stage whose process raised the terminate signal finishes idle with
\* neither .failure nor .error set.
C21_TerminateClean ==
  \A s \in Stages :
    (exc[s] = "Terminate" /\ pc[s] \in {"return", "terminated"}) =>
      /\ Idle(s)
      /\ failure[s] = "None"
      /\ error[s] = "None"

\* The stage calls get on its source in this step.
Gets(s) == pc[s] = "body" /\ pc'[s] # "body"

\* What the call of get hands to the stage in this step: a Consumer passes it
\* to execute, a Pipeline keeps it as the content of its generator.
GetReturned(s, content) ==
  /\ exc'[s] = exc[s]
  /\ fifo'[source[s]] = Tail(fifo[source[s]])
  /\ IF kind[s] = "operations.Pipeline"
     THEN cur'[s] = content
     ELSE executed'[s] = Append(executed[s], content)

\* The call of get signals empty: the loop goes on, nothing is taken.
GetEmpty(s) ==
  /\ pc'[s] = "loop"
  /\ exc'[s] = exc[s]
  /\ fifo'[source[s]] = fifo[source[s]]

\* C22: get on a liveness-aware queue returns the oldest content not yet
\* returned, or signals empty when the queue holds none; it returns nothing
\* that was not put.
C22_GetFifo ==
  [][\A s \in Stages :
       (Gets(s) /\ source[s] \in Queues \ Caches) =>
         IF fifo[source[s]] # <<>>
         THEN GetReturned(s, Head(fifo[source[s]]))
         ELSE GetEmpty(s)]_vars

\* The constructor of the stage calls destination.register(self) in this step.
Registers(s) ==
  /\ kind[s] \in {"operations.Producer", "operations.Pipeline"}
  /\ st[s] = "absent" /\ st'[s] # "absent"

\* C23: register(S) adds S to the sources of the queue, so that the queue is
\* live whenever S is live, and leaves the FIFO contents as they were.
C23_RegisterAddsSource ==
  [][\A s \in Stages :
       Registers(s) =>
         /\ s \in Registered(destination[s])'
         /\ (is_alive(s) => Queue_bool(destination[s]))'
         /\ fifo' = fifo]_vars

\* The constructor of the stage is called in this step.
Constructs(s) == st[s] = "absent" /\ st'[s] # "absent"

\* The stage ends a pass of its loop with a put in this step.
CompletesPass(s) == pc[s] = "receive" /\ pc'[s] = "loop"

\* C24: a Process stage takes one content per pass of its loop and then puts
\* one: a Process built on two queues is a stage, what it has put is never
\* more than what it has taken, and is as much after every completed pass.
C24_Cadence ==
  [][\A s \in Stages :
       kind[s] = "operations.Process" =>
         /\ Constructs(s) => st'[s] = "made"
         /\ Gets(s) /\ fifo[source[s]] # <<>> =>
              GetReturned(s, Head(fifo[source[s]]))
         /\ Len(sent'[s]) <= Len(executed'[s])
         /\ CompletesPass(s) => Len(sent'[s]) = Len(executed'[s])]_vars

\* The condition of the stage's loop: the liveness of its source, for a
\* Consumer on a Cache its Open status.
SourceLive(s) ==
  IF kind[s] = "pipeline.Consumer" THEN Cache_open(source[s])
                                   ELSE Queue_bool(source[s])

\* C25: a get that finds no content while the source is still open or live
\* is a retry: the stage stays in its loop, goes back to the test of the
\* source's liveness, and records neither .failure nor .error.
C25_EmptyIsRetry ==
  [][\A s \in Stages :
       (Gets(s) /\ fifo[source[s]] = <<>> /\ SourceLive(s)) =>
         /\ GetEmpty(s)
         /\ failure'[s] = "None" /\ error'[s] = "None"]_vars

\* The producing stages upstream of a stage: those recorded as sources of the
\* queue it reads.
Upstream(s) ==
  {u \in Registered(source[s]) \ {s} :
     kind[u] \in {"operations.Producer", "pipeline.Producer",
                  "operations.Pipeline", "operations.Process"}}

\* C26: in whatever order the stages are started, a Consumer or transform
\* does not leave its loop before every Producer upstream of it has run to
\* its end and the queue between them is drained.
C26_NoExitBeforeProducerRan ==
  [][\A s \in Stages :
       LeavesLoop(s) =>
         \A u \in Upstream(s) :
           pc[u] = "terminated" /\ Queue_empty(source[s])]_vars

\* The stages that read the queue a stage writes.
Downstream(s) == {u \in Stages : source[u] = destination[s]}

\* The constructor of the stage was called and, if it made a stage, the
\* thread of the stage is over.
Over(s) == st[s] # "absent" /\ (st[s] = "made" => pc[s] = "terminated")

\* join of the stage can return: Thread.join has a thread that is over to
\* wait for, and queue.Queue.join of the destination has nothing unfinished.
JoinReturns(s) ==
  /\ st[s] = "made" /\ pc[s] = "terminated"
  /\ unfinished[destination[s]] = 0

\* C27: once the process of a Producer or transform has finished and every
\* stage downstream of it has finished, its join returns, also when a
\* content was taken off the queue between them and never marked done.
C27_JoinReturns ==
  \A s \in Stages :
    (/\ kind[s] \in {"operations.Producer", "operations.Pipeline",
                     "operations.Process"}
     /\ Over(s)
     /\ \A u \in Downstream(s) : Over(u))
      => JoinReturns(s)

\* The places a task is in: the entries of the agendas and of the success
\* and failure queues of all stacks that are this task, and the checkouts of
\* it whose outcome is not yet published.
Queued(t) ==
  LET n(s) == Count(stack_agenda[s], t) + Count(stack_success[s], t)
                + Count(stack_failure[s], t)
  IN  n("S") + n("X")
Held(t) == checkedout[t] - Len(published[t])
Scheduled(t) == subscribers[t] # {}

\* C28: when every task checked out publishes exactly one of Success,
\* Failure and Abandon, every scheduled task is in exactly one place, once:
\* on one agenda, with one worker, or on one success or failure queue; a
\* task not scheduled is nowhere.
C28_Conservation ==
  \A t \in Tasks :
    /\ Held(t) \in {0, 1}
    /\ Queued(t) + Held(t) = (IF Scheduled(t) THEN 1 ELSE 0)
    /\ Cardinality(subscribers[t]) <= 1
    /\ \A s \in Stacks :
         (Count(stack_agenda[s], t) + Count(stack_success[s], t)
            + Count(stack_failure[s], t) > 0) => subscribers[t] = {s}

\* A task scheduled later was checked out, abandoned, exported and checked
\* out of the new stack, and it has succeeded there; another task is with
\* the worker.
C28_Witness ==
  /\ stack_success["X"] = <<"T3">>
  /\ Count(published["T3"], "Abandon") = 1
  /\ \E t \in Tasks : Held(t) = 1

\* C29: a publication of Error by a task leaves the agenda, the success
\* queue and the failure queue of every stack as they were.
C29_ErrorUnrouted ==
  [][\A t \in Tasks :
       published'[t] = Append(published[t], "Error") =>
         /\ stack_agenda' = stack_agenda
         /\ stack_success' = stack_success
         /\ stack_failure' = stack_failure]_vars

\* A task scheduled on the stack has published Error after another has
\* succeeded: the agenda still holds the three tasks of the start.
C29_Witness ==
  /\ published["T2"] = <<"Error">>
  /\ published["T1"] = <<"Success">>
  /\ stack_agenda["S"] = <<"T1", "T2", "T3">>
  /\ stack_success["S"] = <<"T1">>
  /\ stack_failure["S"] = <<>>

\* The thread is inside queue[n] and waits for the mutex of the queue, which
\* it holds itself: no step of any thread lets it go.
SelfBlocked(u) == gpc[u] \in {"len", "loop"} /\ queue_mutex = u

\* queue[n] returns to the thread in this step.
Sliced(u) == gpc[u] \in {"len", "loop"} /\ gpc'[u] = "idle"

\* C30: queue[n] never blocks on the queue's own mutex, and when it returns
\* the new Queue holds the first min(n, len) items in their order and the
\* original holds the rest.
C30_Slice ==
  /\ [](\A u \in Callers : ~SelfBlocked(u))
  /\ [][\A u \in Callers :
         Sliced(u) =>
           /\ instance'[u] \o queue_items' = instance[u] \o queue_items
           /\ Len(instance'[u]) =
                min(gsize[u], Len(instance[u]) + Len(queue_items))]_vars

====
